---- MODULE Spec2Model ----
(***************************************************************************)
(* A model of umi-mut-sim.cpp: the variant spike-in simulator that merges  *)
(* a coordinate-sorted stream of aligned reads with a coordinate-sorted    *)
(* stream of variants, mutates each read base by base, and writes FASTQ.   *)
(*                                                                         *)
(* Fractions (the read's mutation roll and the allele fractions) are kept  *)
(* as integers in units of 1/(10 * 2^24), so that 0.1 and k/2^24 are both  *)
(* exact.  32-bit words are pairs <<high 16 bits, low 16 bits>>.           *)
(***************************************************************************)
EXTENDS Integers, Sequences, FiniteSets, TLC

\* ------------------------------------------------------------------------
\* Bounds of the checked instance
\* ------------------------------------------------------------------------
MaxReads == 2
MaxVars == 3
MaxAlleleLen == 3

\* ------------------------------------------------------------------------
\* 32-bit arithmetic of khint_t, on pairs <<hi, lo>> of 16-bit halves
\* ------------------------------------------------------------------------
W16 == 2^16

Pow2(k) == 2^k

RECURSIVE Xor16(_, _)
Xor16(x, y) ==
    IF x = 0 THEN y
    ELSE IF y = 0 THEN x
    ELSE ((x + y) % 2) + 2 * Xor16(x \div 2, y \div 2)

Xor32(a, b) == <<Xor16(a[1], b[1]), Xor16(a[2], b[2])>>

Not32(a) == <<(W16 - 1) - a[1], (W16 - 1) - a[2]>>

Add32(a, b) ==
    LET lo == a[2] + b[2]
        hi == a[1] + b[1] + (lo \div W16)
    IN  <<hi % W16, lo % W16>>

Sub32(a, b) == Add32(Add32(a, Not32(b)), <<0, 1>>)

Shl32(a, k) ==
    IF k >= 16
    THEN <<(a[2] % Pow2(32 - k)) * Pow2(k - 16), 0>>
    ELSE <<(a[1] % Pow2(16 - k)) * Pow2(k) + (a[2] \div Pow2(16 - k)),
           (a[2] % Pow2(16 - k)) * Pow2(k)>>

Shr32(a, k) ==
    IF k >= 16
    THEN <<0, a[1] \div Pow2(k - 16)>>
    ELSE <<a[1] \div Pow2(k),
           (a[1] % Pow2(k)) * Pow2(16 - k) + (a[2] \div Pow2(k))>>

Word32(c) == <<0, c>>

\* khash.h: h = *s; if (h) for (++s; *s; ++s) h = (h << 5) - h + *s
RECURSIVE X31Fold(_, _)
X31Fold(h, s) ==
    IF s = <<>> THEN h
    ELSE X31Fold(Add32(Sub32(Shl32(h, 5), h), Word32(Head(s))), Tail(s))

ac_X31_hash_string(s) ==
    IF s = <<>> THEN Word32(0) ELSE X31Fold(Word32(Head(s)), Tail(s))

\* khash.h: the six mixing steps of __ac_Wang_hash
ac_Wang_hash(key) ==
    LET k1 == Add32(key, Not32(Shl32(key, 15)))
        k2 == Xor32(k1, Shr32(k1, 10))
        k3 == Add32(k2, Shl32(k2, 3))
        k4 == Xor32(k3, Shr32(k3, 6))
        k5 == Add32(k4, Not32(Shl32(k4, 11)))
        k6 == Xor32(k5, Shr32(k5, 16))
    IN  k6

\* ------------------------------------------------------------------------
\* Deterministic allele-selector (umistr2prob)
\* ------------------------------------------------------------------------
\* Identifiers are sequences of character codes; '#' is 35.
ChHash == 35

\* One unit of fraction is 1/FracUnit = 1/(10 * 2^24).
FracUnit == 10 * 2^24
DEFAULT_ALLELE_FRAC == FracUnit \div 10

RECURSIVE strchr(_, _)
\* the suffix of str that starts at the first occurrence of c; <<>> is NULL
strchr(str, c) ==
    IF str = <<>> THEN <<>>
    ELSE IF Head(str) = c THEN str
    ELSE strchr(Tail(str), c)

\* mutant: the whole identifier is hashed
UmiStrWhole(str) == str

UmiStr(str) ==
    LET umistr1 == strchr(str, ChHash)
    IN  IF umistr1 = <<>> THEN str ELSE umistr1

\* [prob |-> (k & 0xffffff) in fraction units, umihash |-> k]
umistr2prob(str) ==
    LET k == Xor32(ac_Wang_hash(ac_X31_hash_string(UmiStr(str))), Word32(0))
    IN  [prob |-> (FracUnit \div 2^24) * ((k[1] % 256) * W16 + k[2]), umihash |-> k]

\* ------------------------------------------------------------------------
\* Records of the two input streams
\* ------------------------------------------------------------------------
\* is_var1_before_var2: strict (contig, offset) order
is_var1_before_var2(tid1, pos1, tid2, pos2) ==
    (tid1 < tid2) \/ (tid1 = tid2 /\ pos1 < pos2)

\* flag & bit # 0, for a single bit
FlagSet(flag, bit) == (flag \div bit) % 2 = 1

BAM_FREVERSE == 16
BAM_FREAD1 == 64
BAM_FREAD2 == 128
BAM_FSECONDARY == 256
BAM_FSUPPLEMENTARY == 2048

\* mutant: the mask of line 186 is 0x100, secondary only
IsFilteredSecondaryOnly(flag) == FlagSet(flag, BAM_FSECONDARY)

\* flag & 0x900
IsFiltered(flag) == FlagSet(flag, BAM_FSECONDARY) \/ FlagSet(flag, BAM_FSUPPLEMENTARY)

\* CIGAR operations are records [op, len]; op is the SAM letter.
MatchOps == {"M", "=", "X"}
QueryOps == {"M", "I", "S", "=", "X"}
RefOps == {"M", "D", "N", "=", "X"}

RECURSIVE CigarLen(_, _)
\* the summed length of the operations of cigar whose kind is in ops
CigarLen(cigar, ops) ==
    IF cigar = <<>> THEN 0
    ELSE (IF Head(cigar).op \in ops THEN Head(cigar).len ELSE 0)
         + CigarLen(Tail(cigar), ops)

\* sam.h bam_endpos: pos + rlen, with an empty reference span counted as 1
\* (the reads of the instance are mapped: BAM_FUNMAP is never set)
bam_endpos(b) ==
    LET rlen == CigarLen(b.cigar, RefOps)
    IN  b.pos + (IF rlen = 0 THEN 1 ELSE rlen)

\* the record vcf_rec holds before the first vcf_read (rid = -1, pos = 0)
NoFA == -1
InitVcfRec ==
    [line |-> 0, rid |-> -1, pos |-> 0, ref |-> <<>>, alt |-> <<>>, fa |-> NoFA]

\* the record bam_init1 leaves before the first sam_read1
InitBamRec ==
    [qname |-> <<>>, flag |-> 0, tid |-> -1, pos |-> -1, cigar |-> <<>>,
     seq |-> <<>>, qual |-> <<>>]

\* ------------------------------------------------------------------------
\* The inputs of the checked instance
\* ------------------------------------------------------------------------
Tids == {0, 1}
Offsets == {0, 1}

\* base k of a read of n bases and its raw quality: told apart by position
SeqOf(n) == [k \in 1..n |-> <<"A", "C", "G">>[((k - 1) % 3) + 1]]
QualOf(n) == [k \in 1..n |-> 10 + k]

\* alleles by length: ref A, AC, ACG, ...; alt T, TG, TGT, ...
RefAllele(n) == [k \in 1..n |-> <<"A", "C", "G">>[((k - 1) % 3) + 1]]
AltAllele(n) == [k \in 1..n |-> <<"T", "G">>[((k - 1) % 2) + 1]]

Variant(rid, pos, reflen, altlen, fa) ==
    [line |-> 0, rid |-> rid, pos |-> pos, ref |-> RefAllele(reflen),
     alt |-> AltAllele(altlen), fa |-> fa]

Read(qname, flag, tid, pos, cigar) ==
    [qname |-> qname, flag |-> flag, tid |-> tid, pos |-> pos, cigar |-> cigar,
     seq |-> SeqOf(CigarLen(cigar, QueryOps)),
     qual |-> QualOf(CigarLen(cigar, QueryOps))]

Op(op, len) == [op |-> op, len |-> len]

\* the variant file numbers its records: line k is the k-th record
Numbered(vs) == [k \in 1..Len(vs) |-> [vs[k] EXCEPT !.line = k]]

\* non-decreasing (contig, offset) order, as both inputs are required to be
IsSorted(s) ==
    \A k \in 1..(Len(s) - 1) :
        ~is_var1_before_var2(s[k + 1][1], s[k + 1][2], s[k][1], s[k][2])

SeqsUpTo(S, n) == UNION {[1..m -> S] : m \in 0..n}

\* identifiers: "a#b" rolls 0.086, "b##" 0.108, "a#a" 0.379, "a" 0.544
QnLow == <<97, 35, 98>>
QnMid == <<98, 35, 35>>
QnHigh == <<97, 35, 97>>
QnTop == <<97>>

\* an explicit per-record allele fraction of 0.5
FaHalf == FracUnit \div 2

\* Positions only: SNVs at the default fraction against reads of one match
\* operation, every sorted placement of both streams.
SyncVcfs ==
    {[k \in 1..Len(s) |-> Variant(s[k][1], s[k][2], 1, 1, NoFA)] :
        s \in {t \in SeqsUpTo(Tids \X Offsets, MaxVars) : IsSorted(t)}}

PlainBams ==
    {[k \in 1..Len(s) |-> Read(QnLow, 0, s[k][1], s[k][2], <<Op("M", s[k][3])>>)] :
        s \in {t \in SeqsUpTo(Tids \X Offsets \X {1, 2}, MaxReads) : IsSorted(t)}}

\* the same with one of the reads flagged secondary
SyncBams ==
    PlainBams
    \cup UNION {{[b EXCEPT ![k].flag = BAM_FSECONDARY] : k \in 1..Len(b)} :
                  b \in PlainBams}

\* Alignments and alleles: one read at (0, 0) of every alignment shape, every
\* identifier and both strands, against a leading variant followed by one
\* variant of every allele shape and fraction.
Cigars ==
    { <<Op("M", 4)>>,
      <<Op("S", 1), Op("M", 3)>>,
      <<Op("M", 2), Op("I", 1), Op("M", 1)>>,
      <<Op("M", 1), Op("D", 1), Op("M", 2)>>,
      <<Op("H", 1), Op("=", 2), Op("X", 1)>>,
      <<Op("M", 1), Op("N", 1), Op("M", 1)>> }

Shapes == (1..MaxAlleleLen) \X (1..MaxAlleleLen)

EngineVariants ==
    {Variant(p[1], p[2], sh[1], sh[2], fa) :
        p \in {<<0, 0>>, <<0, 1>>, <<0, 2>>, <<0, 4>>, <<1, 1>>}, sh \in Shapes,
        fa \in {NoFA, FaHalf}}

EngineVcfs ==
    {<<>>} \cup {<<Variant(0, 0, 1, 1, NoFA), v>> : v \in EngineVariants}

EngineBams ==
    {<<Read(qn, fl, 0, 0, c)>> :
        qn \in {QnLow, QnMid, QnTop},
        fl \in {BAM_FREAD1, BAM_FREAD2 + BAM_FREVERSE, BAM_FREAD1 + BAM_FSUPPLEMENTARY},
        c \in Cigars}

\* Runs: one read of four matched bases against a leading variant followed by
\* two variants at offset 1, an SNV (alt T) or an insertion (alt TG) each, with
\* every pairing of the default and the explicit fraction.
RunShapes == {<<1, 1>>, <<1, 2>>}

RunVcfs ==
    {<<Variant(0, 0, 1, 1, NoFA),
       Variant(0, 1, s1[1], s1[2], f1),
       Variant(0, 1, s2[1], s2[2], f2)>> :
        s1 \in RunShapes, s2 \in RunShapes,
        f1 \in {NoFA, FaHalf}, f2 \in {NoFA, FaHalf}}

RunBams ==
    {<<Read(qn, BAM_FREAD1, 0, 0, <<Op("M", 4)>>)>> :
        qn \in {QnLow, QnMid, QnHigh, QnTop}}

Inputs ==
    {[bam |-> b, vcf |-> Numbered(v)] : b \in SyncBams, v \in SyncVcfs}
    \cup {[bam |-> b, vcf |-> Numbered(v)] : b \in EngineBams, v \in EngineVcfs}
    \cup {[bam |-> b, vcf |-> Numbered(v)] : b \in RunBams, v \in RunVcfs}

\* ------------------------------------------------------------------------
\* State of main()
\* ------------------------------------------------------------------------
VARIABLES
    bam,            \* the alignment file: the sequence of its records
    vcf,            \* the variant file: the sequence of its records
    bam_n,          \* records sam_read1 has returned so far
    vcf_n,          \* records vcf_read has returned so far
    bam_rec,        \* the read being processed
    vcf_rec,        \* the head of the variant stream
    vcf_read_ret,   \* the last return value of vcf_read
    vcf_list,       \* the variant window (deque of duplicated records)
    destroyed,      \* lines of the window records released by bcf_destroy
    mutprob,        \* the read's shared fraction
    umihash,        \* the read's seed
    i, j,           \* CIGAR operation index and index inside the operation
    qpos, rpos,     \* query and reference cursors
    vcf_list_idx,   \* the window cursor vcf_rec_it, as an index from 0
    newseq, newqual,
    num_kept_reads, num_kept_snv, num_kept_mnv, num_kept_ins, num_kept_del,
    num_skip_reads, num_skip_cmatches,
    r1file, r2file, \* the FASTQ records written to each output
    pc,             \* where main() stands
    ids, sel,       \* identifiers handed to umistr2prob alone, and its results
    seqs            \* a string handed to reverse and complement alone, then
                    \* what each reverse-complement leaves in it

files == <<bam, vcf>>
stream == <<vcf_n, vcf_rec, vcf_read_ret>>
walk == <<i, j, qpos, rpos, vcf_list_idx>>
selector == <<mutprob, umihash>>
buffers == <<newseq, newqual>>
counters ==
    <<num_kept_reads, num_kept_snv, num_kept_mnv, num_kept_ins, num_kept_del,
      num_skip_reads, num_skip_cmatches>>
outputs == <<r1file, r2file>>
umi == <<ids, sel>>

vars ==
    <<files, bam_n, bam_rec, stream, vcf_list, destroyed, selector, walk,
      buffers, counters, outputs, pc, umi, seqs>>

defallelefrac == DEFAULT_ALLELE_FRAC

\* main() up to the read loop, lines 156-183
InitMain ==
    /\ bam_n = 0
    /\ vcf_n = 0
    /\ bam_rec = InitBamRec
    /\ vcf_rec = InitVcfRec
    /\ vcf_read_ret = 0
    /\ vcf_list = <<>>
    /\ destroyed = {}
    /\ mutprob = 0
    /\ umihash = Word32(0)
    /\ i = 0 /\ j = 0 /\ qpos = 0 /\ rpos = 0 /\ vcf_list_idx = 0
    /\ newseq = <<>> /\ newqual = <<>>
    /\ num_kept_reads = 0 /\ num_kept_snv = 0 /\ num_kept_mnv = 0
    /\ num_kept_ins = 0 /\ num_kept_del = 0
    /\ num_skip_reads = 0 /\ num_skip_cmatches = 0
    /\ r1file = <<>> /\ r2file = <<>>
    /\ pc = "read"

Init ==
    /\ \E in \in Inputs : bam = in.bam /\ vcf = in.vcf
    /\ InitMain
    /\ ids = <<>> /\ sel = <<>>
    /\ seqs = <<>>

\* ------------------------------------------------------------------------
\* The read loop and the stream synchronizer
\* ------------------------------------------------------------------------
\* sam_read1 and the flag filter, lines 184-186; past the last record main()
\* closes the files and reports the counters, lines 340-356
ReadRecord ==
    /\ pc = "read"
    /\ IF bam_n < Len(bam)
       THEN /\ bam_rec' = bam[bam_n + 1]
            /\ bam_n' = bam_n + 1
            /\ pc' = IF IsFiltered(bam[bam_n + 1].flag) THEN "read" ELSE "skip"
       ELSE /\ pc' = "done"
            /\ UNCHANGED <<bam_rec, bam_n>>
    /\ UNCHANGED <<files, stream, vcf_list, destroyed, selector, walk, buffers,
                   counters, outputs, umi, seqs>>

\* vcf_read: the next record into vcf_rec and 0, or -1 at the end of the file
\* with vcf_rec left as it was
VcfReadRec == IF vcf_n < Len(vcf) THEN vcf[vcf_n + 1] ELSE vcf_rec
VcfReadRet == IF vcf_n < Len(vcf) THEN 0 ELSE -1
VcfReadN == IF vcf_n < Len(vcf) THEN vcf_n + 1 ELSE vcf_n

\* one pass of the skip-ahead loop, lines 187-197
SkipAhead ==
    /\ pc = "skip"
    /\ IF is_var1_before_var2(vcf_rec.rid, vcf_rec.pos, bam_rec.tid, bam_rec.pos)
       THEN IF vcf_read_ret # -1
            THEN /\ vcf_rec' = VcfReadRec
                 /\ vcf_read_ret' = VcfReadRet
                 /\ vcf_n' = VcfReadN
                 /\ pc' = IF VcfReadRet < 0 THEN "fetch" ELSE "skip"
            ELSE /\ pc' = "fetch"
                 /\ UNCHANGED stream
       ELSE /\ pc' = "fetch"
            /\ UNCHANGED stream
    /\ UNCHANGED <<files, bam_n, bam_rec, vcf_list, destroyed, selector, walk,
                   buffers, counters, outputs, umi, seqs>>

\* mutant: the push of line 207 comes before the break of line 206
FetchAheadPushThenBreak ==
    /\ pc = "fetch"
    /\ IF is_var1_before_var2(vcf_rec.rid, vcf_rec.pos, bam_rec.tid, bam_endpos(bam_rec))
       THEN IF vcf_read_ret # -1
            THEN /\ vcf_rec' = VcfReadRec
                 /\ vcf_read_ret' = VcfReadRet
                 /\ vcf_n' = VcfReadN
                 /\ vcf_list' = Append(vcf_list, VcfReadRec)
                 /\ pc' = IF VcfReadRet < 0 THEN "evict" ELSE "fetch"
            ELSE /\ pc' = "evict"
                 /\ vcf_list' = Append(vcf_list, vcf_rec)
                 /\ UNCHANGED stream
       ELSE /\ pc' = "evict"
            /\ UNCHANGED <<stream, vcf_list>>
    /\ UNCHANGED <<files, bam_n, bam_rec, destroyed, selector, walk, buffers,
                   counters, outputs, umi, seqs>>

\* one pass of the fetch-ahead loop, lines 198-208: the record pushed is the
\* one vcf_read has just stored in vcf_rec
FetchAhead ==
    /\ pc = "fetch"
    /\ IF is_var1_before_var2(vcf_rec.rid, vcf_rec.pos, bam_rec.tid, bam_endpos(bam_rec))
       THEN IF vcf_read_ret # -1
            THEN /\ vcf_rec' = VcfReadRec
                 /\ vcf_read_ret' = VcfReadRet
                 /\ vcf_n' = VcfReadN
                 /\ IF VcfReadRet < 0
                    THEN pc' = "evict" /\ UNCHANGED vcf_list
                    ELSE pc' = "fetch" /\ vcf_list' = Append(vcf_list, VcfReadRec)
            ELSE /\ pc' = "evict"
                 /\ UNCHANGED <<stream, vcf_list>>
       ELSE /\ pc' = "evict"
            /\ UNCHANGED <<stream, vcf_list>>
    /\ UNCHANGED <<files, bam_n, bam_rec, destroyed, selector, walk, buffers,
                   counters, outputs, umi, seqs>>

\* mutant: the evict test compares offsets only
EvictFrontOffsetOnly(list, tid, pos) ==
    Len(list) > 0 /\ list[1].pos < pos

\* the test of the evict loop, line 209
EvictFront(list, tid, pos) ==
    Len(list) > 0 /\ is_var1_before_var2(list[1].rid, list[1].pos, tid, pos)

\* mutant: the record is taken off the back of the deque
PopBack(list) == SubSeq(list, 1, Len(list) - 1)

\* vcf_list.pop_front(), line 213
PopFront(list) == Tail(list)

\* one pass of the evict loop, lines 209-214
Evict ==
    /\ pc = "evict"
    /\ IF EvictFront(vcf_list, bam_rec.tid, bam_rec.pos)
       THEN /\ destroyed' = destroyed \cup {vcf_list[1].line}
            /\ vcf_list' = PopFront(vcf_list)
            /\ pc' = "evict"
       ELSE /\ pc' = "select"
            /\ UNCHANGED <<vcf_list, destroyed>>
    /\ UNCHANGED <<files, bam_n, bam_rec, stream, selector, walk, buffers,
                   counters, outputs, umi, seqs>>

\* lines 216-227: clear the buffers, roll the read's fraction, and enter the
\* engine only when the window holds something
Select ==
    /\ pc = "select"
    /\ newseq' = <<>>
    /\ newqual' = <<>>
    /\ mutprob' = umistr2prob(bam_rec.qname).prob
    /\ umihash' = umistr2prob(bam_rec.qname).umihash
    /\ IF Len(vcf_list) > 0
       THEN /\ qpos' = 0
            /\ rpos' = bam_rec.pos
            /\ vcf_list_idx' = 0
            /\ i' = 0
            /\ j' = 0
            /\ pc' = "walk"
       ELSE /\ pc' = "raw"
            /\ UNCHANGED walk
    /\ UNCHANGED <<files, bam_n, bam_rec, stream, vcf_list, destroyed, counters,
                   outputs, umi, seqs>>

\* ------------------------------------------------------------------------
\* The read mutation engine
\* ------------------------------------------------------------------------
\* seq_nt16_str[bam_seqi(seq, qpos)] and qual[qpos]; the read holds l_qseq
\* bases, and "?" / -1 stand for a read past them
NucAt(b, q) == IF q < Len(b.seq) THEN b.seq[q + 1] ELSE "?"
QualAt(b, q) == IF q < Len(b.qual) THEN b.qual[q + 1] ELSE -1

RECURSIVE AdvanceIt(_, _, _, _)
\* lines 235-238: move the window cursor past the variants before (tid, rp)
AdvanceIt(list, idx, tid, rp) ==
    IF idx < Len(list)
       /\ is_var1_before_var2(list[idx + 1].rid, list[idx + 1].pos, tid, rp)
    THEN AdvanceIt(list, idx + 1, tid, rp)
    ELSE idx

\* line 239: a window variant sits at the cursor with offset rp
IsAnchored(list, idx, rp) == idx < Len(list) /\ rp = list[idx + 1].pos

RECURSIVE RunEnd(_, _, _)
\* lines 240-245: one past the last variant at the position of list[idx + 1]
RunEnd(list, idx, e) ==
    IF e < Len(list)
       /\ list[e + 1].rid = list[idx + 1].rid
       /\ list[e + 1].pos = list[idx + 1].pos
    THEN RunEnd(list, idx, e + 1)
    ELSE e

\* lines 253-255: the FA value of the record, else the default
AlleleFracOf(v) == IF v.fa = NoFA THEN defallelefrac ELSE v.fa

RECURSIVE FirstKeptOwn(_, _, _, _, _)
\* mutant: allelefrac is assigned, not accumulated
FirstKeptOwn(list, k, e, allelefrac, mp) ==
    IF k >= e THEN -1
    ELSE LET a == AlleleFracOf(list[k + 1])
         IN  IF mp <= a THEN k ELSE FirstKeptOwn(list, k + 1, e, a, mp)

RECURSIVE FirstKept(_, _, _, _, _)
\* lines 248-256 and 297: allelefrac accumulates along the run; the index of
\* the first variant with mutprob <= allelefrac, or -1
FirstKept(list, k, e, allelefrac, mp) ==
    IF k >= e THEN -1
    ELSE LET a == allelefrac + AlleleFracOf(list[k + 1])
         IN  IF mp <= a THEN k ELSE FirstKept(list, k + 1, e, a, mp)

\* the quality given to the bases an insertion adds after its first, line 276
INS_QUAL == 30

\* mutant: the SNV branch copies the read's own base
SnvOutOwnBase(v, nuc, q) ==
    [seq |-> <<nuc>>, qual |-> <<q>>, skip |-> 0, kind |-> "snv"]

\* line 259
SnvOut(v, nuc, q) ==
    [seq |-> <<v.alt[1]>>, qual |-> <<q>>, skip |-> 0, kind |-> "snv"]

\* lines 265-270
MnvOut(v, nuc, q) ==
    [seq |-> <<v.alt[1]>>, qual |-> <<q>>, skip |-> 0, kind |-> "mnv"]

\* mutant: the fill loop starts at k = 0 and the original quality is lost
InsOutAllFixed(v, nuc, q) ==
    [seq |-> v.alt, qual |-> [k \in 1..Len(v.alt) |-> INS_QUAL],
     skip |-> 0, kind |-> "ins"]

\* mutant: the fill loop of line 276 is missing
InsOutNoFill(v, nuc, q) ==
    [seq |-> v.alt, qual |-> <<q>>, skip |-> 0, kind |-> "ins"]

\* lines 271-279
InsOut(v, nuc, q) ==
    [seq |-> v.alt,
     qual |-> <<q>> \o [k \in 1..(Len(v.alt) - 1) |-> INS_QUAL],
     skip |-> 0, kind |-> "ins"]

\* mutant: the deletion is applied without the test of line 281
DelOutUnguarded(v, nuc, q, jj, oplen) ==
    [seq |-> <<>>, qual |-> <<>>, skip |-> Len(v.ref) - 1, kind |-> "del"]

\* lines 280-291: jj is the index inside the match operation of length oplen
DelOut(v, nuc, q, jj, oplen) ==
    IF Len(v.ref) + jj < oplen
    THEN [seq |-> <<>>, qual |-> <<>>, skip |-> Len(v.ref) - 1, kind |-> "del"]
    ELSE [seq |-> <<nuc>>, qual |-> <<q>>, skip |-> 0, kind |-> "delkept"]

\* lines 292-294: only the diagnostic
FailedOut(v, nuc, q) ==
    [seq |-> <<>>, qual |-> <<>>, skip |-> 0, kind |-> "failed"]

\* lines 257-297: what applying v at one base appends and skips
Mutate(v, nuc, q, jj, oplen) ==
    IF Len(v.ref) = 1 /\ Len(v.alt) = 1 THEN SnvOut(v, nuc, q)
    ELSE IF Len(v.ref) = Len(v.alt) THEN MnvOut(v, nuc, q)
    ELSE IF Len(v.ref) = 1 /\ Len(v.alt) > 1 THEN InsOut(v, nuc, q)
    ELSE IF Len(v.ref) > 1 /\ Len(v.alt) = 1 THEN DelOut(v, nuc, q, jj, oplen)
    ELSE FailedOut(v, nuc, q)

\* lines 300-311: the original base, counted as skipped
CopyOut(nuc, q, anchored) ==
    [seq |-> <<nuc>>, qual |-> <<q>>, skip |-> 0,
     kind |-> IF anchored THEN "skipped" ELSE "cmatch"]

\* the body of the loop over one match operation, lines 235-313, at
\* (qp, rp, jj) with the window cursor at idx
BaseOut(list, idx, b, mp, qp, rp, jj, oplen) ==
    LET it == AdvanceIt(list, idx, b.tid, rp)
        anchored == IsAnchored(list, it, rp)
        k == IF anchored THEN FirstKept(list, it, RunEnd(list, it, it), 0, mp) ELSE -1
    IN  IF k >= 0
        THEN Mutate(list[k + 1], NucAt(b, qp), QualAt(b, qp), jj, oplen)
        ELSE CopyOut(NucAt(b, qp), QualAt(b, qp), anchored)

Bump(n, yes) == IF yes THEN n + 1 ELSE n

\* one base of a match / equal / diff operation, lines 232-314
WalkMatch ==
    /\ pc = "walk"
    /\ i < Len(bam_rec.cigar)
    /\ bam_rec.cigar[i + 1].op \in MatchOps
    /\ LET oplen == bam_rec.cigar[i + 1].len
           out == BaseOut(vcf_list, vcf_list_idx, bam_rec, mutprob, qpos, rpos, j, oplen)
           j2 == j + out.skip + 1
       IN  /\ vcf_list_idx' = AdvanceIt(vcf_list, vcf_list_idx, bam_rec.tid, rpos)
           /\ newseq' = newseq \o out.seq
           /\ newqual' = newqual \o out.qual
           /\ qpos' = qpos + out.skip + 1
           /\ rpos' = rpos + out.skip + 1
           /\ IF j2 < oplen THEN i' = i /\ j' = j2 ELSE i' = i + 1 /\ j' = 0
           /\ num_kept_snv' = Bump(num_kept_snv, out.kind = "snv")
           /\ num_kept_mnv' = Bump(num_kept_mnv, out.kind = "mnv")
           /\ num_kept_ins' = Bump(num_kept_ins, out.kind = "ins")
           /\ num_kept_del' = Bump(num_kept_del, out.kind = "del")
           /\ num_kept_reads' = Bump(num_kept_reads, out.kind \notin {"skipped", "cmatch"})
           /\ num_skip_reads' = Bump(num_skip_reads, out.kind = "skipped")
           /\ num_skip_cmatches' = Bump(num_skip_cmatches, out.kind = "cmatch")
    /\ pc' = "walk"
    /\ UNCHANGED <<files, bam_n, bam_rec, stream, vcf_list, destroyed, selector,
                   outputs, umi, seqs>>

\* the bases and qualities an insertion operation copies, lines 316-321
CopyRun(b, qp, len) ==
    [seq |-> [k \in 1..len |-> NucAt(b, qp + k - 1)],
     qual |-> [k \in 1..len |-> QualAt(b, qp + k - 1)]]

\* any other operation, lines 315-332; an unknown kind aborts the process
WalkOther ==
    /\ pc = "walk"
    /\ i < Len(bam_rec.cigar)
    /\ bam_rec.cigar[i + 1].op \notin MatchOps
    /\ LET op == bam_rec.cigar[i + 1].op
           oplen == bam_rec.cigar[i + 1].len
       IN  /\ newseq' = IF op = "I" THEN newseq \o CopyRun(bam_rec, qpos, oplen).seq
                        ELSE newseq
           /\ newqual' = IF op = "I" THEN newqual \o CopyRun(bam_rec, qpos, oplen).qual
                         ELSE newqual
           /\ qpos' = IF op \in {"I", "S"} THEN qpos + oplen ELSE qpos
           /\ rpos' = IF op = "D" THEN rpos + oplen ELSE rpos
           /\ IF op \in {"I", "S", "D", "H"}
              THEN pc' = "walk" /\ i' = i + 1
              ELSE pc' = "aborted" /\ i' = i
    /\ UNCHANGED <<files, bam_n, bam_rec, stream, vcf_list, destroyed, selector,
                   j, vcf_list_idx, counters, outputs, umi, seqs>>

\* ------------------------------------------------------------------------
\* The emission adapter
\* ------------------------------------------------------------------------
\* mutant: the table lacks the entries that send G to C and g to c
ComplementOfNoG(c) ==
    CASE c = "A" -> "T" [] c = "T" -> "A" [] c = "C" -> "G"
      [] c = "a" -> "t" [] c = "t" -> "a" [] c = "c" -> "g"
      [] OTHER -> c

\* THE_REV_COMPLEMENT.data, lines 41-56
ComplementOf(c) ==
    CASE c = "A" -> "T" [] c = "T" -> "A" [] c = "C" -> "G" [] c = "G" -> "C"
      [] c = "a" -> "t" [] c = "t" -> "a" [] c = "c" -> "g" [] c = "g" -> "c"
      [] OTHER -> c

complement(astring) == [k \in 1..Len(astring) |-> ComplementOf(astring[k])]

reverse(astring) == [k \in 1..Len(astring) |-> astring[Len(astring) + 1 - k]]

\* qual + 33, lines 97 and 109
PHRED_SHIFT == 33
Shifted(qual) == [k \in 1..Len(qual) |-> qual[k] + PHRED_SHIFT]

\* lines 82 and 105: R2 only for a read flagged second and not first of pair
ToR2(flag) == ~FlagSet(flag, BAM_FREAD1) /\ FlagSet(flag, BAM_FREAD2)

\* the sequence and quality lines as written for strand flag
Oriented(flag, seq, qual) ==
    [seq |-> IF FlagSet(flag, BAM_FREVERSE) THEN complement(reverse(seq)) ELSE seq,
     qual |-> IF FlagSet(flag, BAM_FREVERSE) THEN reverse(qual) ELSE qual]

FastqRecord(b, seq, qual) == [qname |-> b.qname, seq |-> seq, qual |-> qual]

\* bamrec_write_fastq on the engine's buffers, line 334 and lines 104-119;
\* the buffers are passed by reference and come back as written
WriteFastq ==
    /\ pc = "walk"
    /\ i = Len(bam_rec.cigar)
    /\ IF Len(newqual) = Len(newseq)
       THEN LET o == Oriented(bam_rec.flag, newseq, Shifted(newqual))
            IN  /\ newseq' = o.seq
                /\ newqual' = o.qual
                /\ IF ToR2(bam_rec.flag)
                   THEN /\ r2file' = Append(r2file, FastqRecord(bam_rec, o.seq, o.qual))
                        /\ UNCHANGED r1file
                   ELSE /\ r1file' = Append(r1file, FastqRecord(bam_rec, o.seq, o.qual))
                        /\ UNCHANGED r2file
                /\ pc' = "read"
       ELSE /\ pc' = "aborted"
            /\ UNCHANGED <<buffers, outputs>>
    /\ UNCHANGED <<files, bam_n, bam_rec, stream, vcf_list, destroyed, selector,
                   walk, counters, umi, seqs>>

\* bamrec_write_fastq_raw on the read itself, line 336 and lines 81-101
WriteFastqRaw ==
    /\ pc = "raw"
    /\ LET o == Oriented(bam_rec.flag, bam_rec.seq, Shifted(bam_rec.qual))
       IN  IF ToR2(bam_rec.flag)
           THEN /\ r2file' = Append(r2file, FastqRecord(bam_rec, o.seq, o.qual))
                /\ UNCHANGED r1file
           ELSE /\ r1file' = Append(r1file, FastqRecord(bam_rec, o.seq, o.qual))
                /\ UNCHANGED r2file
    /\ pc' = "read"
    /\ UNCHANGED <<files, bam_n, bam_rec, stream, vcf_list, destroyed, selector,
                   walk, buffers, counters, umi, seqs>>

Next ==
    \/ ReadRecord
    \/ SkipAhead
    \/ FetchAhead
    \/ Evict
    \/ Select
    \/ WalkMatch
    \/ WalkOther
    \/ WriteFastq
    \/ WriteFastqRaw

Spec == Init /\ [][Next]_vars

\* ------------------------------------------------------------------------
\* umistr2prob on its own: two identifiers, each handed to the selector
\* ------------------------------------------------------------------------
MaxIdLen == 3

Identifiers == SeqsUpTo({97, 98, ChHash}, MaxIdLen) \ {<<>>}

InitUmi ==
    /\ bam = <<>> /\ vcf = <<>>
    /\ InitMain
    /\ ids \in Identifiers \X Identifiers
    /\ sel = <<>>
    /\ seqs = <<>>

UmiSelect ==
    /\ Len(sel) < Len(ids)
    /\ sel' = Append(sel, umistr2prob(ids[Len(sel) + 1]))
    /\ UNCHANGED <<files, bam_n, bam_rec, stream, vcf_list, destroyed, selector,
                   walk, buffers, counters, outputs, pc, ids, seqs>>

NextUmi == UmiSelect

SpecUmi == InitUmi /\ [][NextUmi]_vars

\* ------------------------------------------------------------------------
\* reverse and complement on their own: one string, reverse-complemented in
\* place as bamrec_write_fastq does for a reverse-strand read, then again
\* ------------------------------------------------------------------------
MaxSeqLen == 4

Nucleotides == {"A", "C", "G", "T"}

InitRevComp ==
    /\ bam = <<>> /\ vcf = <<>>
    /\ InitMain
    /\ ids = <<>> /\ sel = <<>>
    /\ \E s \in SeqsUpTo(Nucleotides, MaxSeqLen) : seqs = <<s>>

\* reverse(seq); complement(seq); as at lines 92 and 112
RevComp ==
    /\ Len(seqs) < 3
    /\ seqs' = Append(seqs, complement(reverse(seqs[Len(seqs)])))
    /\ UNCHANGED <<files, bam_n, bam_rec, stream, vcf_list, destroyed, selector,
                   walk, buffers, counters, outputs, pc, umi>>

NextRevComp == RevComp

SpecRevComp == InitRevComp /\ [][NextRevComp]_vars

\* ------------------------------------------------------------------------
\* Vocabulary of the properties
\* ------------------------------------------------------------------------
\* the synchronizer has run for bam_rec and the read is not yet written
Synchronized == pc \in {"select", "walk", "raw"}

\* bam_rec has been through the whole loop body
Processed == pc \in {"read", "done"} /\ bam_n > 0 /\ ~IsFiltered(bam_rec.flag)

\* variant v lies on the read's contig inside [start, end)
InSpan(v, b) == v.rid = b.tid /\ b.pos <= v.pos /\ v.pos < bam_endpos(b)

WindowLines == {vcf_list[m].line : m \in 1..Len(vcf_list)}

\* the engine stands at a base of a match operation
AtMatchBase ==
    pc = "walk" /\ i < Len(bam_rec.cigar) /\ bam_rec.cigar[i + 1].op \in MatchOps

\* the index in the window of the variant the engine applies at this base, or -1
SelectedIdx ==
    LET it == AdvanceIt(vcf_list, vcf_list_idx, bam_rec.tid, rpos)
    IN  IF IsAnchored(vcf_list, it, rpos)
        THEN FirstKept(vcf_list, it, RunEnd(vcf_list, it, it), 0, mutprob)
        ELSE -1

Selected == vcf_list[SelectedIdx + 1]

\* the walk of the CIGAR is over and the buffers are about to be written
WalkDone == pc = "walk" /\ i = Len(bam_rec.cigar)

RECURSIVE AlignedIdx(_, _)
\* the query indices (from 0) of the bases under match and insertion
\* operations, in order: what a read keeps when no variant touches it
AlignedIdx(cigar, qp) ==
    IF cigar = <<>> THEN <<>>
    ELSE LET c == Head(cigar)
         IN  IF c.op \in MatchOps \cup {"I"}
             THEN [k \in 1..c.len |-> qp + k - 1] \o AlignedIdx(Tail(cigar), qp + c.len)
             ELSE AlignedIdx(Tail(cigar), qp + (IF c.op = "S" THEN c.len ELSE 0))

AlignedSeq(b) ==
    [k \in 1..Len(AlignedIdx(b.cigar, 0)) |-> b.seq[AlignedIdx(b.cigar, 0)[k] + 1]]
AlignedQual(b) ==
    [k \in 1..Len(AlignedIdx(b.cigar, 0)) |-> b.qual[AlignedIdx(b.cigar, 0)[k] + 1]]

RECURSIVE MatchOffset(_, _, _, _)
\* the place (from 1) in the aligned bases of the base a match operation
\* aligns to reference offset p, or 0 when none does
MatchOffset(cigar, rp, done, p) ==
    IF cigar = <<>> THEN 0
    ELSE LET c == Head(cigar)
         IN  IF c.op \in MatchOps
             THEN IF rp <= p /\ p < rp + c.len
                  THEN done + (p - rp) + 1
                  ELSE MatchOffset(Tail(cigar), rp + c.len, done + c.len, p)
             ELSE MatchOffset(Tail(cigar),
                              rp + (IF c.op \in RefOps THEN c.len ELSE 0),
                              done + (IF c.op = "I" THEN c.len ELSE 0), p)

\* the last record written for bam_rec
LastWritten ==
    IF ToR2(bam_rec.flag) THEN r2file[Len(r2file)] ELSE r1file[Len(r1file)]

HasWritten == IF ToR2(bam_rec.flag) THEN Len(r2file) > 0 ELSE Len(r1file) > 0

SupportedOps == MatchOps \cup {"I", "D", "S", "H"}
HasInvalidOp(b) == \E k \in 1..Len(b.cigar) : b.cigar[k].op \notin SupportedOps

\* ------------------------------------------------------------------------
\* Window properties
\* ------------------------------------------------------------------------
\* C1: when a read is about to be mutated, every variant of the source whose
\* position lies in [read.start, read.end) is in the window.
C1_OverlappingVariantsInWindow ==
    Synchronized =>
        \A k \in 1..Len(vcf) : InSpan(vcf[k], bam_rec) => k \in WindowLines

\* C2: once the synchronizer has run for a read, and until the next read is
\* pulled, no window variant lies strictly before the read's start.
C2_NoVariantBeforeStart ==
    (Synchronized \/ Processed) =>
        \A m \in 1..Len(vcf_list) :
            ~( vcf_list[m].rid < bam_rec.tid
               \/ (vcf_list[m].rid = bam_rec.tid /\ vcf_list[m].pos < bam_rec.pos) )

\* a read whose synchronizer run evicted a variant and left one in the window
C2_Witness ==
    /\ pc = "select"
    /\ vcf_list # <<>>
    /\ \E k \in destroyed :
          /\ is_var1_before_var2(vcf[k].rid, vcf[k].pos, bam_rec.tid, bam_rec.pos)
          /\ bam_n > 1
          /\ ~is_var1_before_var2(vcf[k].rid, vcf[k].pos, bam[bam_n - 1].tid,
                                  bam[bam_n - 1].pos)

\* ------------------------------------------------------------------------
\* Selector properties
\* ------------------------------------------------------------------------
\* the place (from 1) of the first '#' of str, or 0
FirstHashAt(str) ==
    IF \E k \in 1..Len(str) : str[k] = 35
    THEN CHOOSE k \in 1..Len(str) :
            str[k] = 35 /\ \A m \in 1..(k - 1) : str[m] # 35
    ELSE 0

\* the part of the identifier before its first '#', else all of it
KeyBeforeHash(str) ==
    IF FirstHashAt(str) = 0 THEN str ELSE SubSeq(str, 1, FirstHashAt(str) - 1)

\* the part of the identifier from its first '#' on, else all of it
KeyFromHash(str) ==
    IF FirstHashAt(str) = 0 THEN str ELSE SubSeq(str, FirstHashAt(str), Len(str))

\* C3 as stated: two identifiers that agree on the part before the first '#'
\* (on the whole identifier when there is none) get the same (fraction, seed).
C3_SameKeyBeforeHashSameRoll ==
    (Len(sel) = 2 /\ KeyBeforeHash(ids[1]) = KeyBeforeHash(ids[2]))
        => sel[1] = sel[2]

\* C3 amended: two identifiers that agree on the part from the first '#' on
\* (on the whole identifier when there is none) get the same (fraction, seed).
C3_SameKeyFromHashSameRoll ==
    (Len(sel) = 2 /\ KeyFromHash(ids[1]) = KeyFromHash(ids[2]))
        => sel[1] = sel[2]

\* two different identifiers with one key, both rolled
C3_Witness ==
    /\ Len(sel) = 2
    /\ ids[1] # ids[2]
    /\ FirstHashAt(ids[1]) > 1
    /\ KeyFromHash(ids[1]) = KeyFromHash(ids[2])
    /\ sel[1] = sel[2]

\* ------------------------------------------------------------------------
\* Engine properties
\* ------------------------------------------------------------------------
\* the engine applies a deletion at this base: the selected variant has
\* len(ref) > 1 and len(alt) = 1 and the match operation still holds the
\* bases it removes
DeletionApplied ==
    /\ AtMatchBase
    /\ SelectedIdx >= 0
    /\ Len(Selected.ref) > 1 /\ Len(Selected.alt) = 1
    /\ Len(Selected.ref) + j < bam_rec.cigar[i + 1].len

\* C4: an applied deletion with len(ref) = n consumes exactly n - 1 query
\* bases that it does not append, and moves query_pos, ref_pos and the index
\* inside the operation by 1 + (n - 1).
C4_DeletionDropsRefLenMinusOne ==
    [][DeletionApplied =>
          /\ (qpos' - qpos) - (Len(newseq') - Len(newseq)) = Len(Selected.ref) - 1
          /\ qpos' = qpos + 1 + (Len(Selected.ref) - 1)
          /\ rpos' = rpos + 1 + (Len(Selected.ref) - 1)
          /\ i' = i /\ j' = j + 1 + (Len(Selected.ref) - 1)]_vars

\* the selected variant has none of the four supported shapes
UnsupportedSelected ==
    /\ AtMatchBase
    /\ SelectedIdx >= 0
    /\ ~(Len(Selected.ref) = Len(Selected.alt))
    /\ ~(Len(Selected.ref) = 1 /\ Len(Selected.alt) > 1)
    /\ ~(Len(Selected.ref) > 1 /\ Len(Selected.alt) = 1)

\* C5: a selected variant of unsupported shape leaves the base as it was:
\* the original base and quality are appended and the cursors move by 1.
C5_UnsupportedShapeKeepsBase ==
    [][UnsupportedSelected =>
          /\ newseq' = Append(newseq, bam_rec.seq[qpos + 1])
          /\ newqual' = Append(newqual, bam_rec.qual[qpos + 1])
          /\ qpos' = qpos + 1 /\ rpos' = rpos + 1]_vars

\* no window variant sits on the read's contig inside [start, end)
NoVariantOnRead == \A m \in 1..Len(vcf_list) : ~InSpan(vcf_list[m], bam_rec)

\* C6: a read with no window variant anchored at a reference position it
\* covers is written with its original full sequence and quality, oriented
\* by strand and with the quality shifted by 33.
C6_UntouchedReadWrittenWhole ==
    (Processed /\ ~HasInvalidOp(bam_rec) /\ NoVariantOnRead) =>
        /\ HasWritten
        /\ LastWritten.qname = bam_rec.qname
        /\ LastWritten.seq =
              (IF (bam_rec.flag \div 16) % 2 = 1
               THEN complement(reverse(bam_rec.seq)) ELSE bam_rec.seq)
        /\ LastWritten.qual =
              (IF (bam_rec.flag \div 16) % 2 = 1
               THEN reverse([k \in 1..Len(bam_rec.qual) |-> bam_rec.qual[k] + 33])
               ELSE [k \in 1..Len(bam_rec.qual) |-> bam_rec.qual[k] + 33])

\* C7: a read holding an operation of unknown kind is never carried through
\* the loop body: the process aborts and nothing is written for it.
C7_InvalidOpAborts ==
    (bam_n > 0 /\ ~IsFiltered(bam_rec.flag) /\ HasInvalidOp(bam_rec)) =>
        /\ pc \notin {"read", "done"}
        /\ Len(r1file) + Len(r2file)
              <= Cardinality({k \in 1..(bam_n - 1) : ~IsFiltered(bam[k].flag)})

\* the window holds exactly one variant, an SNV on the read's contig whose
\* offset a match operation of the read covers
LoneSnvOnRead ==
    /\ Len(vcf_list) = 1
    /\ Len(vcf_list[1].ref) = 1 /\ Len(vcf_list[1].alt) = 1
    /\ vcf_list[1].rid = bam_rec.tid
    /\ MatchOffset(bam_rec.cigar, bam_rec.pos, 0, vcf_list[1].pos) > 0

\* the read's fraction is within the lone variant's allele fraction
LoneKept ==
    mutprob <= (IF vcf_list[1].fa = -1 THEN FracUnit \div 10 ELSE vcf_list[1].fa)

LoneOffset == MatchOffset(bam_rec.cigar, bam_rec.pos, 0, vcf_list[1].pos)

\* the engine stands at the base the lone SNV is anchored at
AtLoneSnv == AtMatchBase /\ LoneSnvOnRead /\ rpos = vcf_list[1].pos

InsertionApplied ==
    /\ AtMatchBase
    /\ SelectedIdx >= 0
    /\ Len(Selected.ref) = 1 /\ Len(Selected.alt) > 1

\* C9: an applied insertion with len(alt) = m appends the m characters of alt
\* in order in place of the one original base; the first carries the original
\* quality at query_pos and each of the other m - 1 the quality 30;
\* query_pos and ref_pos move by exactly 1.
C9_InsertionAppendsAlt ==
    [][InsertionApplied =>
          /\ newseq' = newseq \o Selected.alt
          /\ Len(newseq') = Len(newseq) + 1 + (Len(Selected.alt) - 1)
          /\ Len(newqual') = Len(newqual) + Len(Selected.alt)
          /\ newqual'[Len(newqual) + 1] = bam_rec.qual[qpos + 1]
          /\ \A k \in 2..Len(Selected.alt) : newqual'[Len(newqual) + k] = 30
          /\ \A k \in 1..Len(newqual) : newqual'[k] = newqual[k]
          /\ qpos' = qpos + 1
          /\ rpos' = rpos + 1]_vars

\* the engine has just applied an insertion of three bases
C9_Witness ==
    /\ pc = "walk"
    /\ num_kept_ins = 1
    /\ Len(newseq) >= 3
    /\ Len(newqual) = Len(newseq)
    /\ newqual[Len(newqual)] = 30 /\ newqual[Len(newqual) - 1] = 30
    /\ newqual[Len(newqual) - 2] = bam_rec.qual[qpos]

\* ------------------------------------------------------------------------
\* Counter properties
\* ------------------------------------------------------------------------
\* read b overlaps variant v under a match operation
Overlaps(v, b) ==
    v.rid = b.tid /\ MatchOffset(b.cigar, b.pos, 0, v.pos) > 0

\* the source holds one variant, an SNV, that overlaps exactly one read of the
\* input, and that read's fraction is within its allele fraction
OneQualifyingSnv ==
    /\ Len(vcf) = 1
    /\ Len(vcf[1].ref) = 1 /\ Len(vcf[1].alt) = 1
    /\ Cardinality({k \in 1..Len(bam) : Overlaps(vcf[1], bam[k])}) = 1
    /\ \A k \in 1..Len(bam) :
          /\ ~IsFiltered(bam[k].flag)
          /\ ~HasInvalidOp(bam[k])
          /\ Overlaps(vcf[1], bam[k]) =>
                umistr2prob(bam[k].qname).prob
                    <= (IF vcf[1].fa = -1 THEN FracUnit \div 10 ELSE vcf[1].fa)

RECURSIVE MatchBases(_)
\* the bases of all reads of the sequence that lie under match operations
MatchBases(reads) ==
    IF reads = <<>> THEN 0
    ELSE CigarLen(Head(reads).cigar, MatchOps) + MatchBases(Tail(reads))

\* C10: after an input whose source holds exactly one variant, an SNV that
\* overlaps and qualifies for exactly one read: kept-snv is 1, the other kept
\* counters and skipped-with-variant-present are 0, and skipped-no-variant
\* counts the other match-aligned bases of the reads.
C10_CountersAfterOneSnv ==
    (pc = "done" /\ OneQualifyingSnv) =>
        /\ num_kept_snv = 1
        /\ num_kept_mnv = 0 /\ num_kept_ins = 0 /\ num_kept_del = 0
        /\ num_skip_reads = 0
        /\ num_skip_cmatches = MatchBases(bam) - 1

\* ------------------------------------------------------------------------
\* Emission properties
\* ------------------------------------------------------------------------
\* C11: for every string over {A, C, G, T}, reverse followed by complement,
\* applied twice, gives back the string: what a second reverse-complement
\* leaves is the string the first one was handed.
C11_RevCompInvolution ==
    Len(seqs) = 3 => seqs[3] = seqs[1]

\* a string that its reverse-complement changes has been through both
C11_Witness ==
    /\ Len(seqs) = 3
    /\ seqs[1] = <<"A", "C", "G", "G">>
    /\ seqs[2] = <<"C", "C", "G", "T">>

\* ------------------------------------------------------------------------
\* Selection within a run
\* ------------------------------------------------------------------------
\* the window cursor once moved up to rpos, and one past the run it stands at
RunLo == AdvanceIt(vcf_list, vcf_list_idx, bam_rec.tid, rpos)
RunHi == RunEnd(vcf_list, RunLo, RunLo)

\* the engine stands at a base where several window variants are anchored
AtRun ==
    /\ AtMatchBase
    /\ IsAnchored(vcf_list, RunLo, rpos)
    /\ RunHi - RunLo >= 2

\* the fraction of the variant at window index k, by its own record
OwnFrac(k) == IF vcf_list[k + 1].fa = -1 THEN FracUnit \div 10 ELSE vcf_list[k + 1].fa

RECURSIVE SumFrac(_, _)
\* the fractions of the run's variants from its first up to index k, summed
SumFrac(lo, k) == IF k < lo THEN 0 ELSE SumFrac(lo, k - 1) + OwnFrac(k)

\* the first index of the run that passes Test, or -1
RunPick(Test(_)) ==
    LET pass == {k \in RunLo..(RunHi - 1) : Test(k)}
    IN  IF pass = {} THEN -1 ELSE CHOOSE k \in pass : \A m \in pass : k <= m

OwnTest(k) == mutprob <= OwnFrac(k)
SumTest(k) == mutprob <= SumFrac(RunLo, k)

\* this step appends and counts what the branch of the variant at index k
\* does, and what keeping the original base does when k is -1
StepTakes(k) ==
    LET nuc == NucAt(bam_rec, qpos)
        q == QualAt(bam_rec, qpos)
        out == IF k >= 0
               THEN Mutate(vcf_list[k + 1], nuc, q, j, bam_rec.cigar[i + 1].len)
               ELSE CopyOut(nuc, q, TRUE)
    IN  /\ newseq' = newseq \o out.seq
        /\ newqual' = newqual \o out.qual
        /\ qpos' = qpos + out.skip + 1
        /\ num_kept_reads' = num_kept_reads + (IF k >= 0 THEN 1 ELSE 0)
        /\ num_skip_reads' = num_skip_reads + (IF k >= 0 THEN 0 ELSE 1)
        /\ num_kept_snv' = num_kept_snv + (IF out.kind = "snv" THEN 1 ELSE 0)
        /\ num_kept_ins' = num_kept_ins + (IF out.kind = "ins" THEN 1 ELSE 0)

DeletionSelected ==
    /\ AtMatchBase
    /\ SelectedIdx >= 0
    /\ Len(Selected.ref) > 1 /\ Len(Selected.alt) = 1

\* C13: a selected deletion with len(ref) = n at index j of a match operation
\* of length L is applied (counted as a deletion, the cursors moved past the
\* deleted bases) exactly when j + n <= L; otherwise the original base and
\* quality are appended, the cursors move by 1 and kept-deletion stays.
C13_DeletionAppliedIffItFits ==
    [][DeletionSelected =>
          IF j + Len(Selected.ref) <= bam_rec.cigar[i + 1].len
          THEN /\ num_kept_del' = num_kept_del + 1
               /\ qpos' > qpos + 1 /\ rpos' > rpos + 1
          ELSE /\ newseq' = Append(newseq, bam_rec.seq[qpos + 1])
               /\ newqual' = Append(newqual, bam_rec.qual[qpos + 1])
               /\ qpos' = qpos + 1 /\ rpos' = rpos + 1
               /\ num_kept_del' = num_kept_del]_vars

\* ------------------------------------------------------------------------
\* Window contents
\* ------------------------------------------------------------------------
\* C14: right after the synchronizer has run for a read the window holds no
\* variant whose (contig, offset) is at or after the read's end position.
C14_NoVariantAtOrAfterEnd ==
    pc = "select" =>
        \A m \in 1..Len(vcf_list) :
            \/ vcf_list[m].rid < bam_rec.tid
            \/ /\ vcf_list[m].rid = bam_rec.tid
               /\ vcf_list[m].pos < bam_endpos(bam_rec)

\* C15: the engine applies a variant at a base only if the variant's contig
\* is the read's contig and its offset is ref_pos; a variant on another
\* contig is never applied.
C15_AppliedVariantAtFullPosition ==
    [][(AtMatchBase /\ num_kept_reads' = num_kept_reads + 1) =>
          /\ SelectedIdx >= 0
          /\ Selected.rid = bam_rec.tid
          /\ Selected.pos = rpos]_vars

\* ------------------------------------------------------------------------
\* Cursor properties
\* ------------------------------------------------------------------------
\* the engine stands at an insertion operation
AtInsertionOp ==
    pc = "walk" /\ i < Len(bam_rec.cigar) /\ bam_rec.cigar[i + 1].op = "I"

\* C16: while the engine walks a read whose operations are all supported,
\* query_pos is the index of a base of the read wherever a base or quality
\* is read, and when the walk ends query_pos is the sequence length and
\* ref_pos is the start plus the lengths of the reference-consuming
\* operations.
C16_CursorsInRange ==
    (pc = "walk" /\ ~HasInvalidOp(bam_rec)) =>
        /\ AtMatchBase => (0 <= qpos /\ qpos < Len(bam_rec.seq))
        /\ AtInsertionOp =>
              (0 <= qpos /\ qpos + bam_rec.cigar[i + 1].len <= Len(bam_rec.seq))
        /\ \A k \in 1..Len(newseq) : newseq[k] # "?"
        /\ \A k \in 1..Len(newqual) : newqual[k] >= 0
        /\ WalkDone =>
              /\ qpos = Len(bam_rec.seq)
              /\ rpos = bam_rec.pos + CigarLen(bam_rec.cigar, RefOps)

\* a walk that applied a deletion is over
C16_Witness ==
    /\ WalkDone
    /\ ~HasInvalidOp(bam_rec)
    /\ num_kept_del = 1
    /\ Len(newseq) < Len(bam_rec.seq)
    /\ qpos = Len(bam_rec.seq)

\* ------------------------------------------------------------------------
\* Window order
\* ------------------------------------------------------------------------
\* the source lines of the records pushed so far: in the window or released
PushedLines == WindowLines \cup destroyed

\* the window is a run of source records, each once, in source order, and
\* in non-decreasing (contig, offset) order
WindowInSourceOrder ==
    /\ \A m \in 1..Len(vcf_list) :
          /\ vcf_list[m].line \in 1..Len(vcf)
          /\ vcf_list[m] = vcf[vcf_list[m].line]
    /\ \A m \in 1..(Len(vcf_list) - 1) :
          /\ vcf_list[m].line < vcf_list[m + 1].line
          /\ ~(\/ vcf_list[m + 1].rid < vcf_list[m].rid
               \/ /\ vcf_list[m + 1].rid = vcf_list[m].rid
                  /\ vcf_list[m + 1].pos < vcf_list[m].pos)

\* a step leaves the window alone, takes its front record off, or adds at its
\* back a source record later than every record pushed before
WindowStep ==
    \/ vcf_list' = vcf_list
    \/ vcf_list # <<>> /\ vcf_list' = Tail(vcf_list)
    \/ /\ Len(vcf_list') = Len(vcf_list) + 1
       /\ SubSeq(vcf_list', 1, Len(vcf_list)) = vcf_list
       /\ \A l \in PushedLines : l < vcf_list'[Len(vcf_list')].line

\* C17: the window is always a duplicate-free subsequence of the source in
\* source order and, the source being sorted, in non-decreasing position
\* order; a record is pushed at most once over the run, and records leave
\* only from the front.
C17_WindowIsSourceSubsequence ==
    []WindowInSourceOrder /\ [][WindowStep]_vars

\* the window holds the third record after the second has been released
C17_Witness ==
    /\ Len(vcf_list) = 1
    /\ vcf_list[1].line = 3
    /\ destroyed = {2}

\* ------------------------------------------------------------------------
\* Exhaustion of the variant source
\* ------------------------------------------------------------------------
\* main() is inside one of the three loops of the synchronizer
InSync == pc \in {"skip", "fetch", "evict"}

\* a step taken once vcf_read has returned -1: the stream is left alone,
\* the window loses at most its front record and only when that record is
\* before the read's start, and the synchronizer goes on to the selector
ExhaustedStep ==
    vcf_read_ret = -1 =>
        /\ UNCHANGED <<vcf_n, vcf_rec, vcf_read_ret>>
        /\ \/ vcf_list' = vcf_list
           \/ /\ vcf_list # <<>>
              /\ vcf_list' = Tail(vcf_list)
              /\ pc = "evict"
              /\ \/ vcf_list[1].rid < bam_rec.tid
                 \/ vcf_list[1].rid = bam_rec.tid /\ vcf_list[1].pos < bam_rec.pos
        /\ InSync => pc' \in {"skip", "fetch", "evict", "select"}

\* in the skip-ahead, fetch-ahead and evict loops, in this order
SyncPhase == CASE pc = "skip" -> 1 [] pc = "fetch" -> 2 [] pc = "evict" -> 3
               [] OTHER -> 4

\* a pass of a loop of the synchronizer either leaves the loop for a later
\* one or for the selector, or consumes a record: one more read from the
\* source in skip-ahead and fetch-ahead, one taken off the window in evict
SyncStep ==
    InSync =>
        \/ /\ pc' \in {"fetch", "evict", "select"}
           /\ SyncPhase < SyncPhase'
        \/ /\ pc' = pc /\ pc \in {"skip", "fetch"}
           /\ vcf_n' = vcf_n + 1
           /\ vcf_list' \in {vcf_list, Append(vcf_list, vcf_rec')}
        \/ /\ pc' = pc /\ pc = "evict"
           /\ Len(vcf_list') = Len(vcf_list) - 1
           /\ vcf_n' = vcf_n

\* inside the synchronizer a pass that changes the state can always be
\* taken, and the source is never read past its end
SyncProgress ==
    /\ vcf_n <= Len(vcf)
    /\ InSync => ENABLED <<Next>>_vars

\* C18: the three loops of the synchronizer end for every read (each pass
\* changes the state and either leaves its loop for good or uses up a record
\* of a finite source or window), and once the source is exhausted
\* synchronizing a read pulls nothing, pushes nothing and raises no error,
\* while the window keeps its records until the evict loop takes them off
\* the front.
C18_SynchronizerEndsAndStaysExhausted ==
    /\ []SyncProgress
    /\ [][SyncStep /\ ExhaustedStep]_vars

\* the first read ends after the last variant, so the source is exhausted
\* while it is synchronized; the second read has been synchronized since, and
\* the window still holds a record
C18_Witness ==
    /\ pc = "select" /\ bam_n = 2
    /\ ~IsFiltered(bam[1].flag)
    /\ vcf # <<>>
    /\ is_var1_before_var2(vcf[Len(vcf)].rid, vcf[Len(vcf)].pos,
                           bam[1].tid, bam_endpos(bam[1]))
    /\ vcf_read_ret = -1
    /\ vcf_list # <<>>

\* ------------------------------------------------------------------------
\* Buffer lengths
\* ------------------------------------------------------------------------
\* C19: all through the walk, and so when the buffers are handed to
\* bamrec_write_fastq, newseq and newqual have the same length; the
\* assertion of line 107 never fails, so main() aborts only on a CIGAR
\* operation it does not support.
C19_BuffersSameLength ==
    /\ pc = "walk" => Len(newseq) = Len(newqual)
    /\ pc = "aborted" =>
          /\ i < Len(bam_rec.cigar)
          /\ bam_rec.cigar[i + 1].op \notin {"M", "=", "X", "I", "S", "D", "H"}

\* a read that took an insertion of more than one base has been written
C19_Witness ==
    /\ pc = "read" /\ bam_n = 1
    /\ num_kept_ins = 1
    /\ Len(vcf_list) > 0
    /\ Len(newseq) > Len(bam_rec.seq)
    /\ HasWritten
    /\ Len(LastWritten.seq) = Len(LastWritten.qual)

\* ------------------------------------------------------------------------
\* The flag filter
\* ------------------------------------------------------------------------
\* the record sam_read1 returns next is flagged secondary or supplementary
NextIsFlagged ==
    /\ pc = "read"
    /\ bam_n < Len(bam)
    /\ \/ (bam[bam_n + 1].flag \div 256) % 2 = 1
       \/ (bam[bam_n + 1].flag \div 2048) % 2 = 1

\* C20: reading a record flagged secondary or supplementary takes main()
\* straight to the next sam_read1: the stream head, the window, the counters,
\* both outputs, the selector's values, the buffers and the cursors are left
\* as they were, and only the record count and bam_rec, which the next
\* sam_read1 overwrites, change.
C20_FlaggedReadSkipped ==
    [][NextIsFlagged =>
          /\ pc' = "read"
          /\ bam_n' = bam_n + 1
          /\ UNCHANGED <<vcf_n, vcf_rec, vcf_read_ret, vcf_list, destroyed>>
          /\ UNCHANGED <<num_kept_reads, num_kept_snv, num_kept_mnv, num_kept_ins,
                         num_kept_del, num_skip_reads, num_skip_cmatches>>
          /\ UNCHANGED <<r1file, r2file>>
          /\ UNCHANGED <<mutprob, umihash, newseq, newqual, i, j, qpos, rpos,
                         vcf_list_idx>>]_vars

\* a flagged first read was skipped and the read after it has been written
C20_Witness ==
    /\ pc = "read" /\ bam_n = 2
    /\ (bam[1].flag \div 256) % 2 = 1
    /\ ~IsFiltered(bam[2].flag)
    /\ Len(r1file) = 1 /\ r2file = <<>>

====
